---- MODULE Spec2Model ----
(***************************************************************************)
(* A model of moqueries/deephash: Hash and Diff, both driven by the one    *)
(* recursive traversal deepHash over Go values seen through reflection.    *)
(*                                                                         *)
(* Strings, labels and fragments are sequences of byte codes (ASCII), so   *)
(* that concatenation, label grammar and the checksum's input stream are   *)
(* modelled character by character.  A uint64 is a sequence of 8 bytes,    *)
(* most significant first (the order binary.BigEndian writes them in).     *)
(***************************************************************************)
EXTENDS Integers, Sequences, FiniteSets, TLC

(***************************************************************************)
(* Bytes and the FNV-64a checksum (hash/fnv, as used by Hash and by the    *)
(* map case of deepHash).                                                  *)
(***************************************************************************)
RECURSIVE Xor(_, _)
Xor(a, b) ==
    IF a = 0 THEN b
    ELSE IF b = 0 THEN a
    ELSE ((a + b) % 2) + 2 * Xor(a \div 2, b \div 2)

\* fnv.New64a(): the offset basis 0xcbf29ce484222325
fnvNew64a == <<203, 242, 156, 228, 132, 34, 35, 37>>

\* x * 0x100000001b3 mod 2^64 on the bytes of x: x * 0x1b3 + (x << 40), byte
\* by byte from the least significant (x[8]) up, each carrying into the next
fnvMulPrime(x) ==
    LET p8 == x[8] * 435
        p7 == x[7] * 435 + (p8 \div 256)
        p6 == x[6] * 435 + (p7 \div 256)
        p5 == x[5] * 435 + (p6 \div 256)
        p4 == x[4] * 435 + (p5 \div 256)
        p3 == x[3] * 435 + x[8] + (p4 \div 256)
        p2 == x[2] * 435 + x[7] + (p3 \div 256)
        p1 == x[1] * 435 + x[6] + (p2 \div 256)
    IN  <<p1 % 256, p2 % 256, p3 % 256, p4 % 256, p5 % 256, p6 % 256, p7 % 256,
          p8 % 256>>

\* one byte into the running checksum: hash ^= b; hash *= prime
fnvByte(h, b) == fnvMulPrime([h EXCEPT ![8] = Xor(h[8], b)])

\* (*fnv.sum64a).Write: the bytes of p in order
RECURSIVE fnvWrite(_, _)
fnvWrite(h, p) ==
    IF p = <<>> THEN h
    ELSE fnvByte(fnvWrite(h, SubSeq(p, 1, Len(p) - 1)), p[Len(p)])

\* a < b for two uint64 values given as big-endian bytes
RECURSIVE U64Less(_, _)
U64Less(a, b) ==
    IF a = <<>> THEN FALSE
    ELSE IF Head(a) # Head(b) THEN Head(a) < Head(b)
    ELSE U64Less(Tail(a), Tail(b))

\* the big-endian bytes of the natural n in w bytes
RECURSIVE NatBE(_, _)
NatBE(n, w) ==
    IF w = 0 THEN <<>> ELSE NatBE(n \div 256, w - 1) \o <<n % 256>>

\* binary.Write(w, binary.BigEndian, x) for an int64 x: 8 bytes, two's complement
Int64BE(n) ==
    IF n >= 0 THEN NatBE(n, 8)
    ELSE [i \in 1..8 |-> 255 - NatBE(-n - 1, 8)[i]]

VARIABLES
    heap,       \* the memory the inputs live in: object id -> the Go value stored there
    lSrc,       \* the first input value  (an interface{} argument: not addressable)
    rSrc,       \* the second input value
    field,      \* the root label given to Diff
    hashL,      \* the outcome of the last Hash(lSrc), or NotRun
    hashR,      \* the outcome of the last Hash(rSrc), or NotRun
    diffLR,     \* the outcome of the last Diff(field, lSrc, rSrc), or NotRun
    diffRL      \* the outcome of the last Diff(field, rSrc, lSrc), or NotRun

vars == <<heap, lSrc, rSrc, field, hashL, hashR, diffLR, diffRL>>

(***************************************************************************)
(* Go values.  Every value is a record with its kind k and its type t.     *)
(*   string  [k, t, s]      bool   [k, t, b]                               *)
(*   int     [k, t, n]      uint   [k, t, n]      float [k, t, bits]       *)
(*   ptr     [k, t, to]     to: object id, 0 for nil                       *)
(*   iface   [k, t, v]      v: the dynamic value, Invalid for nil          *)
(*   struct  [k, t, f]      f: sequence of [name, v], declaration order    *)
(*   array   [k, t, e]      e: sequence of elements                        *)
(*   slice   [k, t, to, n]  backing array heap[to], length n; to = 0: nil  *)
(*   map     [k, t, to]     heap[to] = [k |-> "mapobj", e |-> entries]     *)
(*   other   [k, t]         chan, func, complex, ...                       *)
(* A reflect.Value is a handle [v, addr]: the value and, when the value is *)
(* addressable, where it lives: <<object id, offset>>.  The operators that *)
(* follow a reference take the memory mem (object id -> value) they read.  *)
(***************************************************************************)
Invalid == [k |-> "invalid"]
NoAddr == <<0, 0>>

GoString(t, s) == [k |-> "string", t |-> t, s |-> s]
GoBool(b) == [k |-> "bool", t |-> "bool", b |-> b]
GoInt(t, n) == [k |-> "int", t |-> t, n |-> n]
GoUint(t, n) == [k |-> "uint", t |-> t, n |-> n]
GoFloat(t, bits) == [k |-> "float", t |-> t, bits |-> bits]
GoPtr(t, to) == [k |-> "ptr", t |-> t, to |-> to]
GoIface(v) == [k |-> "iface", t |-> "interface {}", v |-> v]
GoStruct(t, f) == [k |-> "struct", t |-> t, f |-> f]
GoArray(t, e) == [k |-> "array", t |-> t, e |-> e]
GoSlice(t, to, n) == [k |-> "slice", t |-> t, to |-> to, n |-> n]
GoMap(t, to) == [k |-> "map", t |-> t, to |-> to]
GoOther(t) == [k |-> "other", t |-> t]
MapObj(e) == [k |-> "mapobj", e |-> e]
Fld(name, v) == [name |-> name, v |-> v]
Entry(key, val) == [key |-> key, val |-> val]

\* reflect.ValueOf(x): the value held by an interface{} argument, not addressable;
\* a nil interface gives the zero (invalid) Value
ValueOf(v) == [v |-> v, addr |-> NoAddr]

IsValid(h) == h.v.k # "invalid"
CanAddr(h) == h.addr # NoAddr
Kind(h) == h.v.k

\* the storage a value occupies, in words: what decides which parts of an
\* object share an address (a struct and its first field, an array and its
\* first element)
RECURSIVE Size(_), SizeSum(_, _)
Size(v) ==
    CASE v.k = "struct" -> SizeSum([i \in 1..Len(v.f) |-> v.f[i].v], Len(v.f))
      [] v.k = "array" -> SizeSum(v.e, Len(v.e))
      [] OTHER -> 1
SizeSum(vs, n) == IF n = 0 THEN 0 ELSE SizeSum(vs, n - 1) + Size(vs[n])

Sub(h, vs, i) ==
    [v |-> vs[i],
     addr |-> IF CanAddr(h) THEN <<h.addr[1], h.addr[2] + SizeSum(vs, i - 1)>>
              ELSE NoAddr]

\* Value.NumField, Value.Field(i): addressable when the struct is
NumField(h) == Len(h.v.f)
Field(h, i) == Sub(h, [j \in 1..Len(h.v.f) |-> h.v.f[j].v], i)
FieldName(h, i) == h.v.f[i].name

\* Value.Len, Value.Index(i) of a slice or an array: a slice's elements are
\* always addressable (they live in the backing array), an array's when the
\* array is
SeqLen(h) == IF h.v.k = "slice" THEN h.v.n ELSE Len(h.v.e)
Index(mem, h, i) ==
    IF h.v.k = "slice"
    THEN Sub([v |-> mem[h.v.to], addr |-> <<h.v.to, 0>>], mem[h.v.to].e, i)
    ELSE Sub(h, h.v.e, i)

\* Value.Elem of a pointer (the pointee, addressable) or of an interface (the
\* dynamic value, not addressable); of nil: the zero Value
Elem(mem, h) ==
    IF h.v.k = "ptr"
    THEN IF h.v.to = 0 THEN ValueOf(Invalid)
         ELSE [v |-> mem[h.v.to], addr |-> <<h.v.to, 0>>]
    ELSE ValueOf(h.v.v)

(***************************************************************************)
(* Labels (part_001: appendName) and the display form of a map key.        *)
(***************************************************************************)
\* const notEq = " is not equal"
notEq == <<32, 105, 115, 32, 110, 111, 116, 32, 101, 113, 117, 97, 108>>

\* the default root label of Diff: "value"
valueLabel == <<118, 97, 108, 117, 101>>

\* strconv.Itoa(i) for i >= 0
RECURSIVE Itoa(_)
Itoa(i) == IF i < 10 THEN <<48 + i>> ELSE Itoa(i \div 10) \o <<48 + (i % 10)>>

\* reflect.Type.String() of the types map keys have in the inputs
TypeString(t) ==
    CASE t = "int" -> <<105, 110, 116>>
      [] t = "interface {}" ->
            <<105, 110, 116, 101, 114, 102, 97, 99, 101, 32, 123, 125>>
      [] t = "*K" -> <<42, 109, 97, 105, 110, 46, 75>>
      [] t = "K" -> <<109, 97, 105, 110, 46, 75>>
      [] OTHER -> <<63>>

\* reflect.Value.String(): the string itself for a string, "<T Value>" for
\* any other kind
ValueString(h) ==
    IF h.v.k = "string" THEN h.v.s
    ELSE IF h.v.k = "invalid"
         THEN <<60, 105, 110, 118, 97, 108, 105, 100, 32, 86, 97, 108, 117, 101, 62>>
         ELSE <<60>> \o TypeString(h.v.t) \o <<32, 86, 97, 108, 117, 101, 62>>

\* appendName(base, field, nt): ".f" for a struct field (defaultType),
\* "[k-key]" for a map key (mapKeyType), "[i]" for an element or a map value
\* (indexedType); nothing when no label is tracked
appendName(base, name, nt) ==
    IF base = <<>> THEN <<>>
    ELSE CASE nt = "defaultType" -> base \o <<46>> \o name
           [] nt = "mapKeyType" -> base \o <<91>> \o name \o <<45, 107, 101, 121, 93>>
           [] nt = "indexedType" -> base \o <<91>> \o name \o <<93>>

(***************************************************************************)
(* The sinks (fieldWriter).  One record serves both: kind says which.      *)
(*   h          the running FNV-64a state          (noopFieldWriter)       *)
(*   writes     label -> bytes recorded            (compareWriter)         *)
(*   diffs      the differences found so far       (compareWriter)         *)
(*   comparing                                     (compareWriter)         *)
(*   frags      history: every (label, bytes) written, in order            *)
(***************************************************************************)
NoWrites == [f \in {} |-> <<>>]

newNoopFieldWriter ==
    [kind |-> "noop", h |-> fnvNew64a, writes |-> NoWrites, diffs |-> <<>>,
     comparing |-> FALSE, frags |-> <<>>]

newCompareWriter ==
    [kind |-> "compare", h |-> fnvNew64a, writes |-> NoWrites, diffs |-> <<>>,
     comparing |-> FALSE, frags |-> <<>>]

\* func (w noopFieldWriter) Write(_ string, p []byte) error
noopWrite(w, f, p) == [w EXCEPT !.h = fnvWrite(w.h, p)]

\* func (w *compareWriter) Write(f string, p []byte) error
compareWrite(w, f, p) ==
    IF ~w.comparing
    THEN [w EXCEPT !.writes = [g \in DOMAIN w.writes \cup {f} |->
                                  IF g = f THEN p ELSE w.writes[g]]]
    ELSE LET ok == f \in DOMAIN w.writes
             differs == ~ok \/ p # w.writes[f]
             name == IF f = <<>> THEN valueLabel ELSE f
         IN  [w EXCEPT !.diffs = IF differs THEN Append(w.diffs, name \o notEq)
                                 ELSE w.diffs,
                       !.writes = [g \in DOMAIN w.writes \ {f} |-> w.writes[g]]]

\* h.Write(f, p) through the fieldWriter interface
Write(w, f, p) ==
    LET w1 == IF w.kind = "noop" THEN noopWrite(w, f, p) ELSE compareWrite(w, f, p)
    IN  [w1 EXCEPT !.frags = Append(w.frags, [f |-> f, p |-> p])]

(***************************************************************************)
(* The cycle guard: visited map[uintptr][]reflect.Type (deepHash, lines    *)
(* 138-164).                                                               *)
(***************************************************************************)
NoVisited == [x \in {} |-> <<>>]

\* for _, typ := range seen { if typ == newType { return nil } }
Seen(visited, addr, newType) ==
    /\ addr \in DOMAIN visited
    /\ \E i \in 1..Len(visited[addr]) : visited[addr][i] = newType

\* visited[h] = append(seen, newType)
Remember(visited, addr, newType) ==
    LET seen == IF addr \in DOMAIN visited THEN visited[addr] ELSE <<>>
    IN  [x \in DOMAIN visited \cup {addr} |->
            IF x = addr THEN Append(seen, newType) ELSE visited[x]]

\* the guard of the earlier draft of deepHash, which had no deferred function:
\* what a call remembered stays remembered after it returns
ForgetNothing(visited, addr, previouslySeen) == visited

\* a deferred function that always drops the whole entry of the address
forgetEntry(visited, addr, previouslySeen) ==
    [x \in DOMAIN visited \ {addr} |-> visited[x]]

\* the deferred function: drop the last type of an address seen before,
\* the whole entry of an address first seen by this call
Forget(visited, addr, previouslySeen) ==
    IF previouslySeen
    THEN [visited EXCEPT ![addr] = SubSeq(visited[addr], 1, Len(visited[addr]) - 1)]
    ELSE [x \in DOMAIN visited \ {addr} |-> visited[x]]

(***************************************************************************)
(* deepHash (part_001, lines 134-273).  The state a traversal threads      *)
(* through its calls:                                                      *)
(*   mem      the memory the values live in (never written)                *)
(*   w        the sink h                                                   *)
(*   visited  the cycle guard                                              *)
(*   ord      the order in which the runtime enumerates each map object's  *)
(*            keys during this traversal (MapKeys): object id -> a         *)
(*            permutation of its entries' indices                          *)
(*   err      "ok"; "stack overflow" when a call re-enters the             *)
(*            configuration (value, guard) of a call still on the stack,   *)
(*            which then recurs for ever (Go ends the program with a       *)
(*            fatal stack overflow); "hang" when the loop that follows     *)
(*            pointers and interfaces comes back to a value it has left    *)
(*   ties     history: some map visited had two keys with equal sub-hash   *)
(*   disc     history: at every entry and return so far the guard held     *)
(*            exactly the pairs of the addressable calls on the stack      *)
(*   peak     history: the most pairs the guard has held at once           *)
(***************************************************************************)
newTraversal(mem, w, ord) ==
    [mem |-> mem, w |-> w, visited |-> NoVisited, ord |-> ord, err |-> "ok",
     ties |-> FALSE, disc |-> TRUE, peak |-> 0]

\* the (address, type) pairs the guard holds
GuardPairs(visited) ==
    UNION { {<<a, visited[a][i]>> : i \in 1..Len(visited[a])} : a \in DOMAIN visited }

\* the calls of deepHash on the stack that registered their value: active
\* holds, for each call on the stack, its src and the guard it was entered with
Registered(active) == {c \in active : CanAddr(c[1])}
StackPairs(active) == {<<c[1].addr, c[1].v.t>> : c \in Registered(active)}

\* the guard holds exactly the pairs of the registered calls, each once; no
\* entry is left with an empty list
GuardMatchesStack(visited, active) ==
    /\ GuardPairs(visited) = StackPairs(active)
    /\ Cardinality(StackPairs(active)) = Cardinality(Registered(active))
    /\ \A a \in DOMAIN visited :
          /\ visited[a] # <<>>
          /\ \A i, j \in 1..Len(visited[a]) : visited[a][i] = visited[a][j] => i = j

\* for src.Kind() == reflect.Ptr || src.Kind() == reflect.Interface { src = src.Elem() }
\* ([k |-> "hang"] when the loop never ends)
RECURSIVE followPointers(_, _, _)
followPointers(mem, src, left) ==
    IF src.v.k \notin {"ptr", "iface"} THEN src
    ELSE IF src \in left THEN ValueOf([k |-> "hang"])
    ELSE followPointers(mem, Elem(mem, src), left \cup {src})

\* src.MapKeys() with src.MapIndex(key): the entries in the order the runtime
\* enumerates them; keys and values are copies, never addressable
MapKeys(mem, src, ord) ==
    IF src.v.to = 0 THEN <<>>
    ELSE LET e == mem[src.v.to].e
         IN  [i \in 1..Len(e) |-> e[ord[src.v.to][i]]]

\* sort.Slice(elements, func(i, j int) bool { return elements[i].kh < elements[j].kh })
\* (an insertion sort for the lengths modelled: an element moves left while
\* it is less than its predecessor)
RECURSIVE insertElement(_, _)
insertElement(sorted, el) ==
    IF sorted = <<>> \/ ~U64Less(el.kh, sorted[Len(sorted)].kh)
    THEN Append(sorted, el)
    ELSE Append(insertElement(SubSeq(sorted, 1, Len(sorted) - 1), el),
                sorted[Len(sorted)])

\* the elements left in the order the runtime enumerated them
keepOrder(elements) == elements

RECURSIVE sortSlice(_)
sortSlice(elements) ==
    IF elements = <<>> THEN <<>>
    ELSE insertElement(sortSlice(SubSeq(elements, 1, Len(elements) - 1)),
                       elements[Len(elements)])

HasTies(elements) ==
    \E i, j \in 1..Len(elements) : i < j /\ elements[i].kh = elements[j].kh

\* the bytes a declared numeric type occupies (int and uint: 8)
Width(t) ==
    CASE t \in {"int8", "uint8"} -> 1
      [] t \in {"int16", "uint16"} -> 2
      [] t \in {"int32", "uint32", "float32"} -> 4
      [] OTHER -> 8

\* a leaf written in its declared width: the low bytes of an integer, the
\* leading bytes of a float
nativeWidthBytes(v) ==
    CASE v.k = "string" -> v.s
      [] v.k = "bool" -> IF v.b THEN <<49>> ELSE <<48>>
      [] v.k = "int" -> SubSeq(Int64BE(v.n), 9 - Width(v.t), 8)
      [] v.k = "uint" -> SubSeq(NatBE(v.n, 8), 9 - Width(v.t), 8)
      [] v.k = "float" -> SubSeq(v.bits, 1, Width(v.t))

\* the bytes a leaf writes: the string's bytes, "1" or "0", or what
\* binary.Write(&cw, binary.BigEndian, x) captures for x = src.Int(),
\* src.Uint(), src.Float(): an int64, a uint64, a float64
leafBytes(v) ==
    CASE v.k = "string" -> v.s
      [] v.k = "bool" -> IF v.b THEN <<49>> ELSE <<48>>
      [] v.k = "int" -> Int64BE(v.n)
      [] v.k = "uint" -> NatBE(v.n, 8)
      [] v.k = "float" -> v.bits

RECURSIVE deepHash(_, _, _, _)
RECURSIVE hashFields(_, _, _, _, _)
RECURSIVE hashKeys(_, _, _, _, _)
RECURSIVE hashElements(_, _, _, _, _)
RECURSIVE hashIndexed(_, _, _, _, _)

\* case reflect.Struct: the fields from i on
hashFields(src, fld, st, anc, i) ==
    IF i > NumField(src) \/ st.err # "ok" THEN st
    ELSE LET name == IF fld # <<>>
                     THEN appendName(fld, FieldName(src, i), "defaultType")
                     ELSE <<>>
         IN  hashFields(src, fld, deepHash(Field(src, i), name, st, anc), anc, i + 1)

\* case reflect.Map, first loop: each key hashed into a private FNV-64a, with
\* the traversal's own guard; the entries from i on, elements so far in acc
hashKeys(entries, st, anc, i, acc) ==
    IF i > Len(entries) \/ st.err # "ok" THEN [st |-> st, elements |-> acc]
    ELSE LET key == ValueOf(entries[i].key)
             sub == deepHash(key, <<>>, [st EXCEPT !.w = newNoopFieldWriter], anc)
             el == [kh |-> sub.w.h, k |-> key, v |-> ValueOf(entries[i].val)]
         IN  hashKeys(entries, [sub EXCEPT !.w = st.w], anc, i + 1, Append(acc, el))

\* case reflect.Map, second loop: for each element in sorted order its key
\* sub-hash under "[k-key]", then its value under "[k]"
hashElements(elements, fld, st, anc, i) ==
    IF i > Len(elements) \/ st.err # "ok" THEN st
    ELSE LET el == elements[i]
             w1 == Write(st.w, appendName(fld, ValueString(el.k), "mapKeyType"), el.kh)
             st1 == deepHash(el.v, appendName(fld, ValueString(el.k), "indexedType"),
                             [st EXCEPT !.w = w1], anc)
         IN  hashElements(elements, fld, st1, anc, i + 1)

\* case reflect.Slice, reflect.Array: the elements from index i on (i counts from 0)
hashIndexed(src, fld, st, anc, i) ==
    IF i >= SeqLen(src) \/ st.err # "ok" THEN st
    ELSE hashIndexed(src, fld,
                     deepHash(Index(st.mem, src, i + 1), appendName(fld, Itoa(i), "indexedType"),
                              st, anc),
                     anc, i + 1)

\* the switch on src.Kind() and what follows it (lines 171-272)
hashKind(src, fld, st, anc) ==
    CASE src.v.k = "struct" -> hashFields(src, fld, st, anc, 1)
      [] src.v.k = "map" ->
            LET r == hashKeys(MapKeys(st.mem, src, st.ord), st, anc, 1, <<>>)
            IN  hashElements(sortSlice(r.elements), fld,
                             [r.st EXCEPT !.ties = r.st.ties \/ HasTies(r.elements)],
                             anc, 1)
      [] src.v.k \in {"slice", "array"} -> hashIndexed(src, fld, st, anc, 0)
      [] src.v.k \in {"string", "bool", "int", "uint", "float"} ->
            [st EXCEPT !.w = Write(st.w, fld, leafBytes(src.v))]
      [] OTHER -> st

\* visited[h] = append(seen, newType), for a src that can be addressed
register(src, st) ==
    IF CanAddr(src)
    THEN [st EXCEPT !.visited = Remember(st.visited, src.addr, src.v.t)]
    ELSE st

\* history at the entry of a call: the guard against the calls now on the stack
noteEntry(st, active) ==
    LET held == Cardinality(GuardPairs(st.visited))
    IN  [st EXCEPT !.disc = @ /\ GuardMatchesStack(st.visited, active),
                   !.peak = IF held > @ THEN held ELSE @]

\* history at the return of a call entered with the guard entry: the guard is
\* as it was at entry, and matches the calls left on the stack
noteReturn(st, entry, anc) ==
    [st EXCEPT !.disc = @ /\ st.visited = entry /\ GuardMatchesStack(st.visited, anc)]

\* defer func() { ... }() (lines 150-163), run when the call returns; a call
\* that never returns runs nothing
runDeferred(src, entry, anc, st) ==
    IF st.err # "ok" THEN st
    ELSE noteReturn(IF CanAddr(src)
                    THEN [st EXCEPT !.visited =
                             Forget(st.visited, src.addr, src.addr \in DOMAIN entry)]
                    ELSE st,
                    entry, anc)

\* the pointer loop and the switch (lines 167-272)
hashTarget(src, fld, st, active) ==
    LET tgt == followPointers(st.mem, src, {})
    IN  IF tgt.v.k = "hang" THEN [st EXCEPT !.err = "hang"]
        ELSE hashKind(tgt, fld, st, active)

\* a registered call on the stack with anc
hashRegistered(src, fld, st, anc, active) ==
    runDeferred(src, st.visited, anc,
                hashTarget(src, fld, noteEntry(register(src, st), active), active))

deepHash(src, fld, st, anc) ==
    IF st.err # "ok" \/ ~IsValid(src) THEN st
    ELSE IF CanAddr(src) /\ Seen(st.visited, src.addr, src.v.t) THEN st
    ELSE IF <<src, st.visited>> \in anc THEN [st EXCEPT !.err = "stack overflow"]
    ELSE hashRegistered(src, fld, st, anc, anc \cup {<<src, st.visited>>})

(***************************************************************************)
(* Hash and Diff (part_001, lines 17-25 and 39-65).  An outcome records    *)
(* what the call returned and, as history, what its traversals did.        *)
(***************************************************************************)
NotRun == [done |-> FALSE]

\* func Hash(src interface{}) uint64, the runtime enumerating maps as ord says
Hash(mem, src, ord) ==
    LET st == deepHash(ValueOf(src), <<>>, newTraversal(mem, newNoopFieldWriter, ord), {})
    IN  [done |-> TRUE, err |-> st.err, sum |-> st.w.h, frags |-> st.w.frags,
         visited |-> st.visited, ties |-> st.ties, ord |-> ord,
         disc |-> st.disc, peak |-> st.peak]

\* func Diff(field string, lSrc, rSrc interface{}) []string.  The result is
\* diffs, in the order the comparison appended them, followed by one string
\* for each label in left, in the order the runtime enumerates cw.writes.
Diff(mem, fld, l, r, ordL, ordR) ==
    LET f == IF fld = <<>> THEN valueLabel ELSE fld
        st1 == deepHash(ValueOf(l), f, newTraversal(mem, newCompareWriter, ordL), {})
        cw == [st1.w EXCEPT !.comparing = TRUE, !.frags = <<>>]
        st2 == deepHash(ValueOf(r), f, newTraversal(mem, cw, ordR), {})
    IN  [done |-> TRUE,
         err |-> IF st1.err # "ok" THEN st1.err ELSE st2.err,
         diffs |-> st2.w.diffs,
         left |-> {k \o notEq : k \in DOMAIN st2.w.writes},
         lfrags |-> st1.w.frags, rfrags |-> st2.w.frags,
         recorded |-> st1.w.writes,
         ties |-> st1.ties \/ st2.ties,
         lvisited |-> st1.visited, rvisited |-> st2.visited,
         disc |-> st1.disc /\ st2.disc,
         peak |-> IF st1.peak > st2.peak THEN st1.peak ELSE st2.peak]

(***************************************************************************)
(* The inputs.  A world is a memory and two values l, r living in it; the  *)
(* families below are the shapes the repository's tests use (part_000),    *)
(* varied: linked records with and without cycles (TestCircular), parents  *)
(* sharing or duplicating a child (TestStackCycle), maps keyed by strings  *)
(* and by other types, sequences, and records of every leaf kind           *)
(* (TestSameCases, TestDifferentCases, TestDiff).                          *)
(***************************************************************************)
World(mem, l, r) == [mem |-> mem, l |-> l, r |-> r]

Str(s) == GoString("string", s)
IntOf(n) == GoInt("int", n)

\* type N struct { S string; Next *N }
RecN(s, next) ==
    GoStruct("N", <<Fld(<<83>>, Str(s)), Fld(<<78, 101, 120, 116>>, GoPtr("*N", next))>>)

\* &x for the variable at object o, and a copy of it passed by value
AddrOf(mem, o) == GoPtr("*" \o mem[o].t, o)
CopyOf(mem, o) == mem[o]

\* two records, each linked to nothing, to itself or to the other; an
\* interface variable holding a pointer to the first or a copy of it; a
\* pointer variable holding the address of the first
LinkedMems ==
    { <<RecN(<<97>>, p1), RecN(<<98>>, p2), GoIface(x), GoPtr("*N", 1)>> :
        <<p1, p2, x>> \in { <<p1, p2, x>> \in
            (0..2) \X (0..2) \X {GoPtr("*N", 1), RecN(<<97>>, 0), RecN(<<97>>, 1),
                                 RecN(<<97>>, 2)} :
            x.k = "struct" => x = RecN(<<97>>, p1) } }

LinkedWorlds ==
    UNION { { World(mem, l, r) :
                <<l, r>> \in {AddrOf(mem, 1), CopyOf(mem, 1)}
                             \X {AddrOf(mem, 1), CopyOf(mem, 1), AddrOf(mem, 3),
                                 AddrOf(mem, 4)} } :
            mem \in LinkedMems }

\* type child struct { val string; me *child }
\* type parent struct { c1, c2 *child }
RecChild(val, me) ==
    GoStruct("child", <<Fld(<<118, 97, 108>>, Str(val)),
                        Fld(<<109, 101>>, GoPtr("*child", me))>>)
RecParent(c1, c2) ==
    GoStruct("parent", <<Fld(<<99, 49>>, GoPtr("*child", c1)),
                         Fld(<<99, 50>>, GoPtr("*child", c2))>>)

\* two children, each with me nil, itself or the other; a parent whose two
\* references share the first child, and a parent with any two references
DiamondMems ==
    { <<RecChild(<<120>>, w[1]), RecChild(w[2], w[3]), RecParent(1, 1),
        RecParent(w[4], w[5])>> :
        w \in (0..2) \X {<<120>>, <<121>>} \X (0..2) \X (1..2) \X {2} }

DiamondWorlds ==
    UNION { { World(mem, l, r) :
                <<l, r>> \in {AddrOf(mem, 3), CopyOf(mem, 3)}
                             \X {AddrOf(mem, 4), CopyOf(mem, 4)} } :
            mem \in DiamondMems }

\* type K struct { ID int }
RecK(id) == GoStruct("K", <<Fld(<<73, 68>>, IntOf(id))>>)

\* the most entries a map keyed by integers has: map[int]int{1: 10, 2: 20, ...}
MaxEntries == 2

\* the map objects tried at object o, each with the type of the maps that
\* refer to it; objects 1 and 2 are two K{1}, equal in contents
MapShape(t, e) == [t |-> t, e |-> e]
MapShapes(o) ==
    { MapShape("map[string]int", <<Entry(Str(<<107, 49>>), IntOf(42))>>),
      MapShape("map[string]int", <<Entry(Str(<<107, 50>>), IntOf(42))>>),
      MapShape("map[string]int", <<Entry(Str(<<107, 49>>), IntOf(43))>>),
      MapShape("map[string]int", <<Entry(Str(<<107, 49>>), IntOf(42)),
                                   Entry(Str(<<107, 50>>), IntOf(43))>>),
      MapShape("map[string]int", <<Entry(Str(<<107>>), IntOf(1)),
                                   Entry(Str(<<107, 45, 107, 101, 121>>), IntOf(2))>>),
      MapShape("map[int]int", <<Entry(IntOf(2), IntOf(20))>>),
      MapShape("map[*K]int", <<Entry(GoPtr("*K", 1), IntOf(10)),
                               Entry(GoPtr("*K", 2), IntOf(20))>>),
      MapShape("map[K]int", <<Entry(RecK(1), IntOf(10)), Entry(RecK(2), IntOf(20))>>),
      MapShape("map[string]interface {}", <<Entry(Str(<<107>>), GoIface(IntOf(7)))>>),
      MapShape("map[string]interface {}",
               <<Entry(Str(<<107>>), GoIface(GoMap("map[string]interface {}", o)))>>) }
    \cup { MapShape("map[int]int", [i \in 1..n |-> Entry(IntOf(i), IntOf(10 * i))]) :
             n \in 1..MaxEntries }

MapWorlds ==
    { World(<<RecK(1), RecK(1), MapObj(s3.e), MapObj(s4.e)>>, GoMap(s3.t, 3), r) :
        <<s3, s4, r>> \in { <<s3, s4, r>> \in
            MapShapes(3) \X MapShapes(4) \X {GoMap(s.t, o) : s \in MapShapes(0), o \in 3..4} :
            s3.t = s4.t /\ r.t = s4.t } }

\* two arrays of two strings, and two records of the same two strings
\* type P struct { A, B string }
StrPairs == {<<<<97>>, <<98, 99>>>>, <<<<97, 98>>, <<99>>>>, <<<<97, 98>>, <<98, 99>>>>}
ArrOf(e) == GoArray("[2]string", <<Str(e[1]), Str(e[2])>>)
RecP(e) == GoStruct("P", <<Fld(<<65>>, Str(e[1])), Fld(<<66>>, Str(e[2]))>>)

SeqWorlds ==
    UNION { { World(<<ArrOf(e1), ArrOf(e2), RecP(e1), RecP(e2)>>, l, r) :
                <<l, r>> \in
                    {GoSlice("[]string", 1, 2), ArrOf(e1), RecP(e1)}
                    \X {GoSlice("[]string", 2, 2), GoSlice("[]string", 2, 1), ArrOf(e2),
                        GoPtr("*[2]string", 2), RecP(e2)} } :
            <<e1, e2>> \in StrPairs \X StrPairs }

\* records stored in an array: an element and its first field share an address
NestedWorlds ==
    UNION { { World(<<GoArray("[2]P", <<RecP(e1), RecP(e2)>>)>>, GoSlice("[]P", 1, 2), r) :
                r \in {GoSlice("[]P", 1, 2), GoSlice("[]P", 1, 1), GoPtr("*[2]P", 1),
                       GoArray("[2]P", <<RecP(e1), RecP(e2)>>)} } :
            <<e1, e2>> \in StrPairs \X StrPairs }

\* type T struct { S string; B bool; I32 int32; U8 uint8; F64 float64;
\*                 Interface interface{}; hidden string }
\* d names the one field in which the record differs from RecT("")
RecT(d) ==
    GoStruct("T",
      <<Fld(<<83>>, Str(IF d = "S" THEN <<98>> ELSE <<97>>)),
        Fld(<<66>>, GoBool(d = "B")),
        Fld(<<73, 51, 50>>, GoInt("int32", IF d = "I32" THEN -44 ELSE 43)),
        Fld(<<85, 56>>, GoUint("uint8", IF d = "U8" THEN 44 ELSE 43)),
        Fld(<<70, 54, 52>>, GoFloat("float64",
              IF d = "F64" THEN <<64, 70, 0, 0, 0, 0, 0, 0>>
              ELSE <<64, 69, 128, 0, 0, 0, 0, 0>>)),
        Fld(<<73, 110, 116, 101, 114, 102, 97, 99, 101>>,
            GoIface(IF d = "Interface" THEN Invalid ELSE IntOf(42))),
        Fld(<<104, 105, 100, 100, 101, 110>>,
            Str(IF d = "hidden" THEN <<113>> ELSE <<112>>))>>)

RecordWorlds ==
    UNION { { World(<<RecT(""), RecT(d)>>, l, r) :
                <<l, r>> \in {RecT(""), GoPtr("*T", 1)} \X {RecT(d), GoPtr("*T", 2)} } :
            d \in {"", "S", "B", "I32", "U8", "F64", "Interface", "hidden"} }

\* values that are a single leaf, nil, or of a kind the traversal skips
LeafValues ==
    { Str(<<97>>), Str(<<>>), GoBool(TRUE), GoBool(FALSE), IntOf(1),
      GoInt("int32", 43), GoInt("int64", 43), GoUint("uint64", 43),
      GoFloat("float64", <<63, 240, 0, 0, 0, 0, 0, 0>>),
      GoFloat("float32", <<63, 240, 0, 0, 0, 0, 0, 0>>), Invalid, GoOther("chan int") }

LeafWorlds ==
    { World(<<>>, l, r) :
        <<l, r>> \in LeafValues
                     \X {Str(<<97>>), IntOf(1), GoInt("int64", 43), GoBool(TRUE),
                         GoFloat("float64", <<63, 240, 0, 0, 0, 0, 0, 0>>), Invalid} }

\* values that refer to themselves without passing through a struct:
\* type P *P with p = &p; var i interface{} = &i; s := []interface{}{nil} with
\* s[0] = s; s := []interface{}{"x", nil} with s[1] = s, and the array
\* [2]interface{}{s[0], s[1]} of its elements
SelfMem ==
    <<GoPtr("P", 1), GoIface(GoPtr("*interface {}", 2)),
      GoArray("[1]interface {}", <<GoIface(GoSlice("[]interface {}", 3, 1))>>),
      GoArray("[2]interface {}", <<GoIface(Str(<<120>>)),
                                   GoIface(GoSlice("[]interface {}", 4, 2))>>)>>

SelfWorlds ==
    { World(SelfMem, l, r) :
        <<l, r>> \in {GoPtr("P", 1), GoPtr("*interface {}", 2),
                      GoSlice("[]interface {}", 3, 1)}
                     \X {GoSlice("[]interface {}", 3, 1), Str(<<97>>)} }
    \cup {World(SelfMem, GoSlice("[]interface {}", 4, 2), SelfMem[4])}

Worlds ==
    LinkedWorlds \cup DiamondWorlds \cup MapWorlds \cup SeqWorlds \cup RecordWorlds
        \cup LeafWorlds \cup SelfWorlds \cup NestedWorlds

\* the root labels tried: none, and "xyz"
Labels == {<<>>, <<120, 121, 122>>}

\* the objects a value refers to, and those a traversal from src can reach
RECURSIVE Refs(_)
Refs(v) ==
    CASE v.k \in {"ptr", "slice", "map"} -> {v.to} \ {0}
      [] v.k = "iface" -> Refs(v.v)
      [] v.k = "struct" -> UNION {Refs(v.f[i].v) : i \in 1..Len(v.f)}
      [] v.k = "array" -> UNION {Refs(v.e[i]) : i \in 1..Len(v.e)}
      [] v.k = "mapobj" -> UNION {Refs(v.e[i].key) \cup Refs(v.e[i].val) : i \in 1..Len(v.e)}
      [] OTHER -> {}

RECURSIVE Closure(_, _, _)
Closure(mem, os, n) ==
    IF n = 0 THEN os
    ELSE Closure(mem, os \cup UNION {Refs(mem[o]) : o \in os}, n - 1)

Reach(mem, src) == Closure(mem, Refs(src), Len(mem))

\* the orders in which the runtime may enumerate the keys of each map object
\* a traversal from src can reach
Perms(n) == {p \in [1..n -> 1..n] : \A i, j \in 1..n : p[i] = p[j] => i = j}
MapObjs(mem, src) == {o \in Reach(mem, src) : mem[o].k = "mapobj"}
Orders(mem, src) ==
    {ord \in [MapObjs(mem, src) -> UNION {Perms(Len(mem[o].e)) : o \in MapObjs(mem, src)}] :
        \A o \in MapObjs(mem, src) : ord[o] \in Perms(Len(mem[o].e))}

(***************************************************************************)
(* The state machine: a caller holding two values calls Hash on either     *)
(* and Diff in either argument order, in any order; each variable keeps    *)
(* the outcome of its call.  A call reads nothing but its arguments and    *)
(* the memory, which no call writes, so a second call of the same          *)
(* operation can return nothing the first could not: two calls of Hash on  *)
(* one input are HashL and HashR with lSrc = rSrc.                         *)
(***************************************************************************)
Init ==
    \E w \in Worlds, f \in Labels :
        /\ heap = w.mem
        /\ lSrc = w.l
        /\ rSrc = w.r
        /\ field = f
        /\ hashL = NotRun
        /\ hashR = NotRun
        /\ diffLR = NotRun
        /\ diffRL = NotRun

HashL ==
    /\ ~hashL.done
    /\ \E ord \in Orders(heap, lSrc) : hashL' = Hash(heap, lSrc, ord)
    /\ UNCHANGED <<heap, lSrc, rSrc, field, hashR, diffLR, diffRL>>

HashR ==
    /\ ~hashR.done
    /\ \E ord \in Orders(heap, rSrc) : hashR' = Hash(heap, rSrc, ord)
    /\ UNCHANGED <<heap, lSrc, rSrc, field, hashL, diffLR, diffRL>>

DiffLR ==
    /\ ~diffLR.done
    /\ \E ordL \in Orders(heap, lSrc), ordR \in Orders(heap, rSrc) :
          diffLR' = Diff(heap, field, lSrc, rSrc, ordL, ordR)
    /\ UNCHANGED <<heap, lSrc, rSrc, field, hashL, hashR, diffRL>>

DiffRL ==
    /\ ~diffRL.done
    /\ \E ordL \in Orders(heap, rSrc), ordR \in Orders(heap, lSrc) :
          diffRL' = Diff(heap, field, rSrc, lSrc, ordL, ordR)
    /\ UNCHANGED <<heap, lSrc, rSrc, field, hashL, hashR, diffLR>>

Next == HashL \/ HashR \/ DiffLR \/ DiffRL

Spec == Init /\ [][Next]_vars

(***************************************************************************)
(* What the claims speak of.                                               *)
(***************************************************************************)
Outcomes == {hashL, hashR, diffLR, diffRL}

\* the call returned: it neither ran out of stack nor looped for ever
Returned(out) == out.done /\ out.err = "ok"

\* what Diff returned, as a set of strings
DiffSet(out) == {out.diffs[i] : i \in 1..Len(out.diffs)} \cup out.left

\* the record a value is or points to
Target(mem, v) == IF v.k = "ptr" /\ v.to # 0 THEN mem[v.to] ELSE v

\* a value with every reference renamed by rho
RECURSIVE Rename(_, _)
Rename(rho, v) ==
    CASE v.k \in {"ptr", "slice", "map"} ->
            [v EXCEPT !.to = IF v.to = 0 THEN 0 ELSE rho[v.to]]
      [] v.k = "iface" -> [v EXCEPT !.v = Rename(rho, v.v)]
      [] v.k = "struct" ->
            [v EXCEPT !.f = [i \in 1..Len(v.f) |-> Fld(v.f[i].name, Rename(rho, v.f[i].v))]]
      [] v.k = "array" -> [v EXCEPT !.e = [i \in 1..Len(v.e) |-> Rename(rho, v.e[i])]]
      [] v.k = "mapobj" ->
            [v EXCEPT !.e = [i \in 1..Len(v.e) |->
                                Entry(Rename(rho, v.e[i].key), Rename(rho, v.e[i].val))]]
      [] OTHER -> v

\* object b is an independent duplicate of object a: renaming the objects
\* reachable from them, a to b, maps every object onto an object with the
\* same contents (b = a is the trivial case)
ContentEqualObjects(mem, a, b) ==
    LET R == Closure(mem, {a, b}, Len(mem))
    IN  \E rho \in [R -> R] :
            /\ rho[a] = b
            /\ \A o1, o2 \in R : rho[o1] = rho[o2] => o1 = o2
            /\ \A o \in R : mem[rho[o]] = Rename(rho, mem[o])

(***************************************************************************)
(* C1.  For every finite value graph, self-referential ones included, the  *)
(* traversal started by Hash or Diff terminates: every call made returns.  *)
(* (Fails: a map that holds itself as a value is re-entered without bound, *)
(* no value on the way being addressable; a pointer or an interface that   *)
(* leads back to itself keeps the pointer-following loop running.)         *)
(***************************************************************************)
C1_TraversalTerminates == \A out \in Outcomes : out.done => out.err = "ok"

(***************************************************************************)
(* C2.  A parent whose two references share one child and a parent whose   *)
(* two references point to two distinct, content-equal children have the   *)
(* same Hash, and Diff between them is empty in either argument order.     *)
(***************************************************************************)
SharedVersusDuplicated ==
    LET pl == Target(heap, lSrc)
        pr == Target(heap, rSrc)
    IN  /\ pl.k = "struct" /\ pl.t = "parent"
        /\ pr.k = "struct" /\ pr.t = "parent"
        /\ pl.f[1].v.to = pl.f[2].v.to
        /\ pr.f[1].v.to # pr.f[2].v.to
        /\ ContentEqualObjects(heap, pl.f[1].v.to, pr.f[1].v.to)
        /\ ContentEqualObjects(heap, pl.f[1].v.to, pr.f[2].v.to)

C2_SharedEqualsDuplicated ==
    SharedVersusDuplicated =>
        /\ (hashL.done /\ hashR.done =>
                Returned(hashL) /\ Returned(hashR) /\ hashL.sum = hashR.sum)
        /\ (diffLR.done => Returned(diffLR) /\ DiffSet(diffLR) = {})
        /\ (diffRL.done => Returned(diffRL) /\ DiffSet(diffRL) = {})

\* both parents hashed and diffed in both orders, the shared child having
\* been written twice by the traversal of the left parent
C2_Witness ==
    /\ SharedVersusDuplicated
    /\ hashL.done /\ hashR.done /\ diffLR.done /\ diffRL.done
    /\ Len(hashL.frags) >= 2
    /\ lSrc.k = "ptr"

(***************************************************************************)
(* C3.  For any two values a and b with the same observable contents (in   *)
(* particular b = a) and any root label, Diff(label, a, b) returns an      *)
(* empty list, maps with two or more non-string keys included.             *)
(* (Fails: the entries of such a map all write under one label.)           *)
(***************************************************************************)
\* b is a or a duplicate of a: renaming the objects they reach maps a onto b
\* and every object onto an object with the same contents
SameContents(mem, a, b) ==
    LET R == Closure(mem, Refs(a) \cup Refs(b), Len(mem))
    IN  \E rho \in [R -> R] :
            /\ \A o1, o2 \in R : rho[o1] = rho[o2] => o1 = o2
            /\ Rename(rho, a) = b
            /\ \A o \in R : mem[rho[o]] = Rename(rho, mem[o])

C3_SameContentsDiffEmpty ==
    SameContents(heap, lSrc, rSrc) /\ Returned(diffLR) => DiffSet(diffLR) = {}

(***************************************************************************)
(* C4.  Diff is symmetric: for every label and every pair of values a, b,  *)
(* the set of strings returned by Diff(label, a, b) equals the set         *)
(* returned by Diff(label, b, a).                                          *)
(***************************************************************************)
C4_DiffSymmetric ==
    Returned(diffLR) /\ Returned(diffRL) => DiffSet(diffLR) = DiffSet(diffRL)

(***************************************************************************)
(* C5.  The list returned by Diff(label, a, b) holds "<L> is not equal"    *)
(* for exactly the labels L under which the two traversals wrote different *)
(* bytes or under which only one of them wrote, each exactly once.         *)
(***************************************************************************)
LabelsOf(frags) == {frags[i].f : i \in 1..Len(frags)}

\* what a traversal wrote under label L, in order
WrittenUnder(frags, L) ==
    LET s == SelectSeq(frags, LAMBDA x : x.f = L)
    IN  [i \in 1..Len(s) |-> s[i].p]

DifferingLabels(out) ==
    {L \in LabelsOf(out.lfrags) \cup LabelsOf(out.rfrags) :
        WrittenUnder(out.lfrags, L) # WrittenUnder(out.rfrags, L)}

C5_DiffListsExactlyTheDifferingLabels ==
    \A out \in {diffLR, diffRL} :
        Returned(out) =>
            /\ DiffSet(out) = {L \o notEq : L \in DifferingLabels(out)}
            /\ Len(out.diffs) + Cardinality(out.left) = Cardinality(DiffSet(out))

(***************************************************************************)
(* C6.  Two values of the same type that differ in at least one leaf       *)
(* (string, boolean or number) feed different byte sequences into the      *)
(* running checksum, sequences and records of strings that split the same  *)
(* characters differently between neighbours included.                     *)
(***************************************************************************)
RECURSIVE Flatten(_)
Flatten(ss) == IF ss = <<>> THEN <<>> ELSE Head(ss) \o Flatten(Tail(ss))

\* every byte Hash fed into the checksum, in order
Stream(frags) == Flatten([i \in 1..Len(frags) |-> frags[i].p])

\* no object a traversal from v reaches leads back to itself
Acyclic(mem, v) ==
    \A o \in Reach(mem, v) : o \notin Closure(mem, Refs(mem[o]), Len(mem))

\* the leaves of a value without maps, in the order of its structure
RECURSIVE Leaves(_, _, _)
Leaves(mem, v, fuel) ==
    CASE v.k \in {"string", "bool", "int", "uint", "float"} -> <<v>>
      [] v.k = "struct" -> Flatten([i \in 1..Len(v.f) |-> Leaves(mem, v.f[i].v, fuel)])
      [] v.k = "array" -> Flatten([i \in 1..Len(v.e) |-> Leaves(mem, v.e[i], fuel)])
      [] v.k = "slice" /\ v.to # 0 /\ fuel > 0 ->
            Flatten([i \in 1..v.n |-> Leaves(mem, mem[v.to].e[i], fuel - 1)])
      [] v.k = "ptr" /\ v.to # 0 /\ fuel > 0 -> Leaves(mem, mem[v.to], fuel - 1)
      [] v.k = "iface" -> Leaves(mem, v.v, fuel)
      [] OTHER -> <<>>

\* a and b have one type and one shape, and some leaf of a is not that of b
DifferInALeaf(mem, a, b) ==
    /\ a.k \notin {"invalid", "map"} /\ b.k \notin {"invalid", "map"}
    /\ a.t = b.t
    /\ MapObjs(mem, a) = {} /\ MapObjs(mem, b) = {}
    /\ Acyclic(mem, a) /\ Acyclic(mem, b)
    /\ LET la == Leaves(mem, a, Len(mem))
           lb == Leaves(mem, b, Len(mem))
       IN  /\ Len(la) = Len(lb)
           /\ \E i \in 1..Len(la) : la[i] # lb[i]

C6_DifferentLeavesDifferentStreams ==
    DifferInALeaf(heap, lSrc, rSrc) /\ Returned(hashL) /\ Returned(hashR) =>
        Stream(hashL.frags) # Stream(hashR.frags)

(***************************************************************************)
(* C7.  Hash is deterministic even when a map has distinct keys with equal *)
(* key sub-hashes: whatever order the runtime enumerates the keys in, two  *)
(* calls of Hash on the same input return the same digest.                 *)
(***************************************************************************)
C7_RepeatedHashSameDigest ==
    lSrc = rSrc /\ Returned(hashL) /\ Returned(hashR) => hashL.sum = hashR.sum

(***************************************************************************)
(* C8.  For a map whose keys have pairwise distinct key sub-hashes, the    *)
(* fragments the traversal writes (each entry's key sub-hash, then its     *)
(* value's fragments, entries in ascending key sub-hash order) are the     *)
(* same for every enumeration order of the map's keys, and so is Hash.     *)
(***************************************************************************)
\* a map of two or more entries whose values are single leaves
LeafValuedMap(mem, v) ==
    /\ v.k = "map" /\ v.to # 0
    /\ Len(mem[v.to].e) >= 2
    /\ \A i \in 1..Len(mem[v.to].e) : mem[v.to].e[i].val.k = "int"

C8_MapOrderIndependent ==
    lSrc = rSrc /\ Returned(hashL) /\ Returned(hashR) /\ ~hashL.ties /\ ~hashR.ties =>
        /\ hashL.frags = hashR.frags
        /\ hashL.sum = hashR.sum
        /\ LeafValuedMap(heap, lSrc) =>
              LET n == Len(heap[lSrc.to].e)
              IN  /\ Len(hashL.frags) = 2 * n
                  /\ \A i \in 1..(n - 1) :
                        U64Less(hashL.frags[2 * i - 1].p, hashL.frags[2 * i + 1].p)
                  /\ \A i \in 1..n : \E j \in 1..n :
                        hashL.frags[2 * i].p = leafBytes(heap[lSrc.to].e[j].val)

\* one map of two or more entries, no two keys tied, hashed twice with the
\* runtime enumerating its keys in two different orders
C8_Witness ==
    /\ lSrc = rSrc
    /\ LeafValuedMap(heap, lSrc)
    /\ Returned(hashL) /\ Returned(hashR)
    /\ ~hashL.ties /\ ~hashR.ties
    /\ hashL.ord # hashR.ord

(***************************************************************************)
(* C9.  Indirection is transparent: for every record T, records on a       *)
(* reference cycle included, Hash(&T) = Hash(T), and further pointer or    *)
(* interface layers do not change the Hash.                                *)
(***************************************************************************)
\* a and b are, or lead through pointers and interfaces to, one record value
SameRecordBehindIndirection(mem, a, b) ==
    LET ta == followPointers(mem, ValueOf(a), {}).v
        tb == followPointers(mem, ValueOf(b), {}).v
    IN  ta.k = "struct" /\ ta = tb

C9_IndirectionTransparent ==
    /\ SameRecordBehindIndirection(heap, lSrc, rSrc)
    /\ Returned(hashL) /\ Returned(hashR)
    => hashL.sum = hashR.sum

(***************************************************************************)
(* C10.  Only exported record fields are traversed: two records that       *)
(* differ only in the value of an unexported field have the same Hash and  *)
(* an empty Diff.                                                          *)
(***************************************************************************)
\* an exported field's name starts with an upper-case letter
IsExported(name) == name # <<>> /\ name[1] \in 65..90

DifferOnlyInUnexported(mem, a, b) ==
    LET ta == Target(mem, a)
        tb == Target(mem, b)
    IN  /\ ta.k = "struct" /\ tb.k = "struct"
        /\ ta.t = tb.t
        /\ \A i \in 1..Len(ta.f) : IsExported(ta.f[i].name) => ta.f[i] = tb.f[i]
        /\ \E i \in 1..Len(ta.f) : ta.f[i] # tb.f[i]

C10_UnexportedFieldsIgnored ==
    DifferOnlyInUnexported(heap, lSrc, rSrc) =>
        /\ (Returned(hashL) /\ Returned(hashR) => hashL.sum = hashR.sum)
        /\ (Returned(diffLR) => DiffSet(diffLR) = {})

(***************************************************************************)
(* C11.  Numeric leaves are written as a big-endian fragment of their      *)
(* declared width (1, 2, 4 or 8 bytes), so that two numeric values of      *)
(* different declared widths holding the same number do not hash equal.    *)
(* (Fails: src.Int(), src.Uint() and src.Float() widen to 64 bits.)        *)
(***************************************************************************)
IsNumeric(v) == v.k \in {"int", "uint", "float"}

\* the number a numeric leaf holds, as written in 64 bits
NumberOf(v) ==
    CASE v.k = "int" -> Int64BE(v.n)
      [] v.k = "uint" -> NatBE(v.n, 8)
      [] v.k = "float" -> v.bits

\* two leaves of one kind and different declared types holding one number
SameNumberOtherType(a, b) ==
    IsNumeric(a) /\ IsNumeric(b) /\ a.k = b.k /\ a.t # b.t /\ NumberOf(a) = NumberOf(b)

C11_NativeWidthFragments ==
    /\ IsNumeric(lSrc) /\ Returned(hashL) =>
          Len(hashL.frags) = 1 /\ Len(hashL.frags[1].p) = Width(lSrc.t)
    /\ SameNumberOtherType(lSrc, rSrc) /\ Returned(hashL) /\ Returned(hashR) =>
          hashL.sum # hashR.sum

\* C11 as amended: a numeric leaf is written as one big-endian fragment of 8
\* bytes whatever its declared width, and two numeric values of one kind and
\* different declared widths holding the same number hash equal (and Diff
\* between them is empty).
C11_EightByteFragments ==
    /\ IsNumeric(lSrc) /\ Returned(hashL) =>
          hashL.frags = << [f |-> <<>>, p |-> NumberOf(lSrc)] >>
              /\ Len(hashL.frags[1].p) = 8
    /\ SameNumberOtherType(lSrc, rSrc) /\ Returned(hashL) /\ Returned(hashR) =>
          hashL.sum = hashR.sum
    /\ SameNumberOtherType(lSrc, rSrc) /\ Returned(diffLR) => DiffSet(diffLR) = {}

\* an int32 and an int64, or a float32 and a float64, holding one number,
\* both hashed and diffed
C11_Witness ==
    /\ SameNumberOtherType(lSrc, rSrc)
    /\ Width(lSrc.t) = 4 /\ Width(rSrc.t) = 8
    /\ Returned(hashL) /\ Returned(hashR) /\ Returned(diffLR)

(***************************************************************************)
(* C12.  A fixed-size array and a slice holding identical elements in      *)
(* identical order produce the same sequence of (label, bytes) fragments   *)
(* under the same root label, hence the same Hash and an empty Diff in     *)
(* both argument orders.                                                   *)
(***************************************************************************)
\* the elements a slice or an array value holds
ElementsOf(mem, v) ==
    IF v.k = "slice"
    THEN IF v.to = 0 THEN <<>> ELSE SubSeq(mem[v.to].e, 1, v.n)
    ELSE v.e

\* one of a, b is a slice, the other an array, and their elements are equal
ArrayAndSliceOfSameElements(mem, a, b) ==
    /\ {a.k, b.k} = {"slice", "array"}
    /\ ElementsOf(mem, a) = ElementsOf(mem, b)

C12_ArrayEqualsSlice ==
    ArrayAndSliceOfSameElements(heap, lSrc, rSrc) =>
        /\ (Returned(hashL) /\ Returned(hashR) =>
                hashL.frags = hashR.frags /\ hashL.sum = hashR.sum)
        /\ (Returned(diffLR) => diffLR.lfrags = diffLR.rfrags /\ DiffSet(diffLR) = {})
        /\ (Returned(diffRL) => diffRL.lfrags = diffRL.rfrags /\ DiffSet(diffRL) = {})

(***************************************************************************)
(* C13.  Label uniqueness: within one traversal with a non-empty root      *)
(* label no two fragments are written under the same label; in particular  *)
(* not by two entries of one map, whatever the key type, nor by one        *)
(* entry's key fragment "[k-key]" and another entry's value fragment "[k]".*)
(***************************************************************************)
\* no label occurs twice among the fragments of one traversal
UniqueLabels(frags) ==
    \A i, j \in 1..Len(frags) : frags[i].f = frags[j].f => i = j

C13_LabelsUnique ==
    \A out \in {diffLR, diffRL} :
        Returned(out) => UniqueLabels(out.lfrags) /\ UniqueLabels(out.rfrags)

(***************************************************************************)
(* C14.  Cycle guard discipline: at every point of a traversal the guard   *)
(* holds exactly the (identity, type) pairs of the addressable values      *)
(* whose deepHash call is on the recursion stack, each pair once; each     *)
(* return removes exactly the pair that call added, leaving the guard as   *)
(* the call found it; and the guard is empty when the top-level call       *)
(* returns.                                                                *)
(***************************************************************************)
C14_GuardDiscipline ==
    /\ \A out \in {hashL, hashR} :
          Returned(out) => out.disc /\ out.visited = NoVisited
    /\ \A out \in {diffLR, diffRL} :
          Returned(out) =>
              out.disc /\ out.lvisited = NoVisited /\ out.rvisited = NoVisited

\* a traversal has returned during which the guard held two pairs at once
\* for one address: a record stored in an array and its first field
C14_Witness ==
    /\ lSrc.k = "slice" /\ lSrc.t = "[]P"
    /\ Returned(hashL) /\ Returned(diffLR)
    /\ hashL.peak >= 2
    /\ Len(hashL.frags) >= 4

(***************************************************************************)
(* C15.  In the compare sink's recording phase a write to a label already  *)
(* recorded in that phase is reported as an error that aborts the Diff     *)
(* call; recorded bytes are never silently overwritten.  So when Diff      *)
(* returns, the sink recorded one entry per write of the first traversal   *)
(* and still holds, under each label written, the bytes written there.     *)
(***************************************************************************)
C15_DoubleWriteIsAnError ==
    \A out \in {diffLR, diffRL} :
        Returned(out) =>
            /\ Cardinality(DOMAIN out.recorded) = Len(out.lfrags)
            /\ \A i \in 1..Len(out.lfrags) :
                  out.recorded[out.lfrags[i].f] = out.lfrags[i].p

(***************************************************************************)
(* C16.  Hash and Diff agree: for every pair of values a, b and every root *)
(* label, if the byte sequences Hash(a) and Hash(b) feed to the checksum   *)
(* differ, then Diff(label, a, b) is not empty (an empty Diff implies      *)
(* equal hashes).                                                          *)
(***************************************************************************)
C16_HashAndDiffAgree ==
    /\ Returned(hashL) /\ Returned(hashR)
    /\ Stream(hashL.frags) # Stream(hashR.frags)
    => /\ (Returned(diffLR) => DiffSet(diffLR) # {})
       /\ (Returned(diffRL) => DiffSet(diffRL) # {})

====
